---- MODULE Spec2Model ----
(***************************************************************************)
(* A model of the LLM agent loop (ai_agent_using_prompt_engineering.py),   *)
(* the three-prompt code generator (quasi_agent.py) and the action         *)
(* environment (core/game.py).                                             *)
(*                                                                         *)
(* Texts are TLA+ strings handled character by character (Len, SubSeq and  *)
(* \o).  Python values (the results of json.loads, the tool results) are   *)
(* tagged records: JNull, JBool, JNum, JStr, JArr, JObj.                    *)
(***************************************************************************)
EXTENDS Integers, Sequences, FiniteSets, TLC

VARIABLES
    \* --- parse_action / extract_markdown_block applied to one text ---
    p_text,          \* the raw text handed to the parser
    p_tag,           \* block_type handed to extract_markdown_block
    p_block,         \* what extract_markdown_block returned
    p_out,           \* outcome of parse_action: a returned value or a raised exception
    \* --- Agent ---
    max_iterations,  \* Agent.max_iterations
    user_task,       \* the argument of Agent.run
    memory,          \* Agent.memory
    pc,              \* position of Agent.run
    i,               \* loop variable of Agent.run (iterations started so far minus one)
    prompt,          \* the message list of the latest generate_response call
    response,        \* the reply of the latest generate_response call
    result,          \* the tool result of the latest dispatch (NoValue before the first)
    llm_calls,       \* number of generate_response calls made by run
    out,             \* reports printed by run: "Termination" / "Max iterations reached"
    history,         \* (reply, result) of every iteration that completed without terminating
    raised,          \* the exception that escaped run, "" if none
    \* --- QuasiAgent ---
    q_pc,            \* position of develop_custom_function
    q_desc,          \* function_description
    q_messages,      \* the local list `messages`
    q_prompts,       \* the message lists generate_response received, in call order
    q_replies,       \* the replies generate_response gave, in call order
    q_code,          \* base_function, documented_function, test_cases as far as extracted
    q_file,          \* the file written: <<filename, content>>, or <<>>
    \* --- core/game.py ---
    actions,         \* ActionRegistry.actions
    e_call,          \* the action and args of the latest Environment.execute_action
    e_out            \* its outcome: the returned dict, or the exception that escaped

parse_vars == <<p_text, p_tag, p_block, p_out>>
agent_vars == <<max_iterations, user_task, memory, pc, i, prompt, response, result, llm_calls, out,
               history, raised>>
quasi_vars == <<q_pc, q_desc, q_messages, q_prompts, q_replies, q_code, q_file>>
game_vars  == <<actions, e_call, e_out>>
vars == <<parse_vars, agent_vars, quasi_vars, game_vars>>

(***************************************************************************)
(* Characters.  A TLA+ string literal cannot hold the backquote character, *)
(* so Tick stands for it; no other text of the model contains Tick.        *)
(***************************************************************************)
Tick == "~"
Fence == Tick \o Tick \o Tick

\* str.strip() removes these (the ASCII whitespace the inputs can hold)
Whitespace == {" ", "\n", "\t", "\r"}
\* json.decoder.WHITESPACE
JsonWs == {" ", "\t", "\n", "\r"}
\* characters below 0x20: invalid inside a JSON string (strict mode)
ControlChars == {"\n", "\t", "\r"}
Digits == {"0", "1", "2", "3", "4", "5", "6", "7", "8", "9"}
DigitVal == ("0" :> 0) @@ ("1" :> 1) @@ ("2" :> 2) @@ ("3" :> 3) @@ ("4" :> 4) @@
            ("5" :> 5) @@ ("6" :> 6) @@ ("7" :> 7) @@ ("8" :> 8) @@ ("9" :> 9)
DigitChar == <<"0", "1", "2", "3", "4", "5", "6", "7", "8", "9">>

(***************************************************************************)
(* Python str operations.                                                  *)
(***************************************************************************)
Char(s, k) == SubSeq(s, k, k)
\* s[a-1:b] with 1-based inclusive bounds
Slice(s, a, b) ==
    LET e == IF b > Len(s) THEN Len(s) ELSE b
    IN  IF a > e THEN "" ELSE SubSeq(s, a, e)
\* s[a-1:]
From(s, a) == Slice(s, a, Len(s))
\* s.startswith(p)
StartsWith(s, p) == Len(p) <= Len(s) /\ Slice(s, 1, Len(p)) = p

RECURSIVE Find(_, _, _)
\* s.find(sub, k-1) + 1: the first position >= k where sub occurs, 0 if none
Find(s, sub, k) ==
    IF k + Len(sub) - 1 > Len(s) THEN 0
    ELSE IF Slice(s, k, k + Len(sub) - 1) = sub THEN k
    ELSE Find(s, sub, k + 1)

\* sub in s
Contains(s, sub) == Len(sub) = 0 \/ Find(s, sub, 1) # 0

RECURSIVE Split(_, _)
\* s.split(sep)
Split(s, sep) ==
    LET k == Find(s, sep, 1)
    IN  IF k = 0 THEN <<s>>
        ELSE <<Slice(s, 1, k - 1)>> \o Split(From(s, k + Len(sep)), sep)

RECURSIVE LStrip(_)
LStrip(s) == IF Len(s) > 0 /\ Char(s, 1) \in Whitespace THEN LStrip(From(s, 2)) ELSE s
RECURSIVE RStrip(_)
RStrip(s) == IF Len(s) > 0 /\ Char(s, Len(s)) \in Whitespace
             THEN RStrip(Slice(s, 1, Len(s) - 1)) ELSE s
\* s.strip()
Strip(s) == RStrip(LStrip(s))

(***************************************************************************)
(* Python values.                                                          *)
(***************************************************************************)
JNull == [t |-> "null"]
JBool(b) == [t |-> "bool", b |-> b]
JNum(n) == [t |-> "num", n |-> n]
JStr(s) == [t |-> "str", s |-> s]
JArr(xs) == [t |-> "arr", items |-> xs]
\* a dict: its members in insertion order, keys unique
JObj(ms) == [t |-> "obj", members |-> ms]
Member(k, v) == [k |-> k, v |-> v]

Keys(d) == {d.members[n].k : n \in DOMAIN d.members}
\* d[k] for a key the dict has
Get(d, k) == LET n == CHOOSE n \in DOMAIN d.members : d.members[n].k = k
             IN  d.members[n].v
\* d[k] = v on the member list: a repeated key keeps its place and takes the new value
Put(ms, k, v) ==
    IF \E n \in DOMAIN ms : ms[n].k = k
    THEN [n \in DOMAIN ms |-> IF ms[n].k = k THEN Member(k, v) ELSE ms[n]]
    ELSE Append(ms, Member(k, v))

(***************************************************************************)
(* json.loads, for the JSON the inputs can hold: objects, arrays, strings  *)
(* with the escapes \" \\ \/ \n \t, integers, null, true, false.           *)
(***************************************************************************)
Fail == [ok |-> FALSE]
Ok(v, n) == [ok |-> TRUE, v |-> v, next |-> n]

RECURSIVE SkipWs(_, _)
SkipWs(s, k) == IF k <= Len(s) /\ Char(s, k) \in JsonWs THEN SkipWs(s, k + 1) ELSE k

Escapes == ("\"" :> "\"") @@ ("\\" :> "\\") @@ ("/" :> "/") @@ ("n" :> "\n") @@ ("t" :> "\t")

RECURSIVE ScanString(_, _, _)
\* py_scanstring from the character after the opening quote
ScanString(s, k, acc) ==
    IF k > Len(s) THEN Fail
    ELSE LET c == Char(s, k)
         IN  IF c = "\"" THEN Ok(JStr(acc), k + 1)
             ELSE IF c \in ControlChars THEN Fail
             ELSE IF c = "\\"
                  THEN IF k + 1 <= Len(s) /\ Char(s, k + 1) \in DOMAIN Escapes
                       THEN ScanString(s, k + 2, acc \o Escapes[Char(s, k + 1)])
                       ELSE Fail
             ELSE ScanString(s, k + 1, acc \o c)

RECURSIVE ScanDigits(_, _, _)
ScanDigits(s, k, acc) ==
    IF k <= Len(s) /\ Char(s, k) \in Digits
    THEN ScanDigits(s, k + 1, acc * 10 + DigitVal[Char(s, k)])
    ELSE [n |-> acc, next |-> k]

\* NUMBER_RE, integer part: -?(0|[1-9]\d*)
ParseNumber(s, k) ==
    LET neg == Char(s, k) = "-"
        j == IF neg THEN k + 1 ELSE k
    IN  IF j > Len(s) \/ Char(s, j) \notin Digits THEN Fail
        ELSE IF Char(s, j) = "0" THEN Ok(JNum(0), j + 1)
        ELSE LET d == ScanDigits(s, j, 0)
             IN  Ok(JNum(IF neg THEN 0 - d.n ELSE d.n), d.next)

RECURSIVE ParseValue(_, _)
RECURSIVE ParseMembers(_, _, _)
RECURSIVE ParseItems(_, _, _)

\* JSONObject after the opening brace and whitespace, at a member
ParseMembers(s, k, acc) ==
    IF k > Len(s) \/ Char(s, k) # "\"" THEN Fail
    ELSE LET key == ScanString(s, k + 1, "")
         IN  IF ~key.ok THEN Fail
             ELSE LET c == SkipWs(s, key.next)
                  IN  IF c > Len(s) \/ Char(s, c) # ":" THEN Fail
                      ELSE LET val == ParseValue(s, SkipWs(s, c + 1))
                           IN  IF ~val.ok THEN Fail
                               ELSE LET acc2 == Put(acc, key.v.s, val.v)
                                        e == SkipWs(s, val.next)
                                    IN  IF e > Len(s) THEN Fail
                                        ELSE IF Char(s, e) = "}" THEN Ok(JObj(acc2), e + 1)
                                        ELSE IF Char(s, e) = ","
                                             THEN ParseMembers(s, SkipWs(s, e + 1), acc2)
                                        ELSE Fail

\* JSONArray after the opening bracket and whitespace, at an element
ParseItems(s, k, acc) ==
    LET val == ParseValue(s, k)
    IN  IF ~val.ok THEN Fail
        ELSE LET acc2 == Append(acc, val.v)
                 e == SkipWs(s, val.next)
             IN  IF e > Len(s) THEN Fail
                 ELSE IF Char(s, e) = "]" THEN Ok(JArr(acc2), e + 1)
                 ELSE IF Char(s, e) = "," THEN ParseItems(s, SkipWs(s, e + 1), acc2)
                 ELSE Fail

\* scanner.py_make_scanner._scan_once
ParseValue(s, k) ==
    IF k > Len(s) THEN Fail
    ELSE LET c == Char(s, k)
         IN  IF c = "\"" THEN ScanString(s, k + 1, "")
             ELSE IF c = "{"
                  THEN LET j == SkipWs(s, k + 1)
                       IN  IF j <= Len(s) /\ Char(s, j) = "}" THEN Ok(JObj(<<>>), j + 1)
                           ELSE ParseMembers(s, j, <<>>)
             ELSE IF c = "["
                  THEN LET j == SkipWs(s, k + 1)
                       IN  IF j <= Len(s) /\ Char(s, j) = "]" THEN Ok(JArr(<<>>), j + 1)
                           ELSE ParseItems(s, j, <<>>)
             ELSE IF c = "n" /\ Slice(s, k, k + 3) = "null" THEN Ok(JNull, k + 4)
             ELSE IF c = "t" /\ Slice(s, k, k + 3) = "true" THEN Ok(JBool(TRUE), k + 4)
             ELSE IF c = "f" /\ Slice(s, k, k + 4) = "false" THEN Ok(JBool(FALSE), k + 5)
             ELSE IF c \in Digits \cup {"-"} THEN ParseNumber(s, k)
             ELSE Fail

\* json.loads(s): [ok |-> TRUE, v |-> value], or [ok |-> FALSE] for JSONDecodeError
Loads(s) ==
    LET val == ParseValue(s, SkipWs(s, 1))
    IN  IF val.ok /\ SkipWs(s, val.next) = Len(s) + 1
        THEN [ok |-> TRUE, v |-> val.v]
        ELSE [ok |-> FALSE]

(***************************************************************************)
(* json.dumps with the default separators and ensure_ascii.                *)
(***************************************************************************)
RECURSIVE NatStr(_)
NatStr(n) == IF n < 10 THEN DigitChar[n + 1] ELSE NatStr(n \div 10) \o DigitChar[(n % 10) + 1]
\* str(n) for an int
IntStr(n) == IF n < 0 THEN "-" \o NatStr(0 - n) ELSE NatStr(n)

EscapeChar(c) ==
    IF c = "\"" THEN "\\\""
    ELSE IF c = "\\" THEN "\\\\"
    ELSE IF c = "\n" THEN "\\n"
    ELSE IF c = "\t" THEN "\\t"
    ELSE IF c = "\r" THEN "\\r"
    ELSE c

RECURSIVE EscapeFrom(_, _)
EscapeFrom(s, k) == IF k > Len(s) THEN "" ELSE EscapeChar(Char(s, k)) \o EscapeFrom(s, k + 1)
\* encoder.py_encode_basestring_ascii
EncodeString(s) == "\"" \o EscapeFrom(s, 1) \o "\""

RECURSIVE Dumps(_)
RECURSIVE DumpItems(_, _)
RECURSIVE DumpMembers(_, _)
DumpItems(xs, k) ==
    IF k > Len(xs) THEN ""
    ELSE (IF k > 1 THEN ", " ELSE "") \o Dumps(xs[k]) \o DumpItems(xs, k + 1)
DumpMembers(ms, k) ==
    IF k > Len(ms) THEN ""
    ELSE (IF k > 1 THEN ", " ELSE "") \o EncodeString(ms[k].k) \o ": " \o Dumps(ms[k].v)
         \o DumpMembers(ms, k + 1)
\* json.dumps(v)
Dumps(v) ==
    IF v.t = "null" THEN "null"
    ELSE IF v.t = "bool" THEN (IF v.b THEN "true" ELSE "false")
    ELSE IF v.t = "num" THEN IntStr(v.n)
    ELSE IF v.t = "str" THEN EncodeString(v.s)
    ELSE IF v.t = "arr" THEN "[" \o DumpItems(v.items, 1) \o "]"
    ELSE "{" \o DumpMembers(v.members, 1) \o "}"

(***************************************************************************)
(* extract_markdown_block and parse_action.                                *)
(***************************************************************************)
RECURSIVE FirstBlock(_, _, _)
\* the loop `for i in range(1, len(parts), 2)`; k is the 0-based index i
FirstBlock(parts, k, block_type) ==
    IF k >= Len(parts) THEN [found |-> FALSE]
    ELSE LET block == Strip(parts[k + 1])
         IN  IF StartsWith(block, block_type)
             THEN [found |-> TRUE, body |-> Strip(From(block, Len(block_type) + 1))]
             ELSE FirstBlock(parts, k + 2, block_type)

extract_markdown_block(resp, block_type) ==
    IF ~Contains(resp, Fence) THEN resp
    ELSE LET hit == FirstBlock(Split(resp, Fence), 1, block_type)
         IN  IF hit.found THEN hit.body ELSE Strip(resp)

Returned(v) == [kind |-> "return", v |-> v]
Raised(e) == [kind |-> "raise", exc |-> e]

ErrorAction(msg) ==
    JObj(<<Member("tool_name", JStr("error")),
           Member("args", JObj(<<Member("message", JStr(msg))>>))>>)

\* the outcome of `key in v`: a bool, or TypeError when v is not a container
In(key, v) ==
    IF v.t = "obj" THEN Returned(key \in Keys(v))
    ELSE IF v.t = "arr" THEN Returned(\E n \in DOMAIN v.items : v.items[n] = JStr(key))
    ELSE IF v.t = "str" THEN Returned(Contains(v.s, key))
    ELSE Raised("TypeError")

parse_action(resp) ==
    LET decoded == Loads(extract_markdown_block(resp, "action"))
    IN  IF ~decoded.ok
        THEN Returned(ErrorAction("Malformed JSON in action block."))
        ELSE LET has_name == In("tool_name", decoded.v)
             IN  IF has_name.kind = "raise" THEN has_name
                 ELSE IF has_name.v /\ In("args", decoded.v).v THEN Returned(decoded.v)
                 ELSE Returned(ErrorAction("Missing required fields in action JSON."))

(***************************************************************************)
(* The texts handed to the parser.                                         *)
(***************************************************************************)
Action2(tn, a) == JObj(<<Member("tool_name", tn), Member("args", a)>>)

ToolNameValues ==
    {JStr("list_files"), JStr("read_file"), JStr("terminate"), JStr("error"), JStr("foo"),
     JNum(5), JNull, JArr(<<>>)}
ArgsValues ==
    {JObj(<<>>), JObj(<<Member("message", JStr("done"))>>),
     JObj(<<Member("file_name", JStr("a.txt"))>>), JObj(<<Member("file_name", JStr("b.txt"))>>),
     JNum(5), JNull, JStr("message"), JArr(<<JStr("message")>>)}
ActionValues ==
    {Action2(tn, a) : tn \in ToolNameValues, a \in ArgsValues}
    \cup {JObj(<<Member("tool_name", tn)>>) : tn \in ToolNameValues}
    \cup {JObj(<<Member("args", a)>>) : a \in ArgsValues}
    \cup {JObj(<<>>)}
OtherValues ==
    {JNum(5), JNull, JBool(TRUE), JStr("hello"), JStr("tool_name and args"), JArr(<<>>),
     JArr(<<JStr("tool_name"), JStr("args")>>), JArr(<<JStr("tool_name")>>)}
\* candidate payloads: well-formed JSON, the same cut short, and plain prose
Payloads ==
    {Dumps(v) : v \in ActionValues \cup OtherValues}
    \cup {Slice(Dumps(v), 1, Len(Dumps(v)) - 1) : v \in ActionValues \cup OtherValues}
    \cup {"", "I will list the files."}
\* the ways a reply carries its payload
Wrappers == 1..9
Wrap(p, w) ==
    CASE w = 1 -> p
      [] w = 2 -> "Let me think.\n\n" \o Fence \o "action\n" \o p \o "\n" \o Fence \o "\n"
      [] w = 3 -> Fence \o "json\n" \o p \o "\n" \o Fence
      [] w = 4 -> Fence \o "actions\n" \o p \o "\n" \o Fence
      [] w = 5 -> "  " \o p \o "\n"
      [] w = 6 -> Fence \o "json\n{}\n" \o Fence \o " then " \o Fence \o "action " \o p \o Fence
      [] w = 7 -> "Thought " \o Fence \o "action\n" \o p
      [] w = 8 -> Fence \o "\n action\n" \o p \o "\n" \o Fence
      [] w = 9 -> " " \o Fence \o "python\n" \o p \o Fence \o "\n"
Responses == {Wrap(p, w) : p \in Payloads, w \in Wrappers}
BlockTypes == {"json", "action"}

NoOutcome == [kind |-> "none"]

\* parse_action(p_text), with the block it decodes
ParseAction ==
    /\ p_tag = ""
    /\ p_tag' = "action"
    /\ p_block' = extract_markdown_block(p_text, "action")
    /\ p_out' = parse_action(p_text)
    /\ UNCHANGED p_text
    /\ UNCHANGED <<agent_vars, quasi_vars, game_vars>>

\* extract_markdown_block(p_text, block_type) on its own
ExtractBlock(block_type) ==
    /\ p_tag = ""
    /\ p_tag' = block_type
    /\ p_block' = extract_markdown_block(p_text, block_type)
    /\ UNCHANGED <<p_text, p_out>>
    /\ UNCHANGED <<agent_vars, quasi_vars, game_vars>>

(***************************************************************************)
(* ToolExecutor.                                                           *)
(***************************************************************************)
\* the working directory: file name -> content
FileNames == <<"a.txt", "notes.md">>
FileContent == ("a.txt" :> "line one\nsaid \"hi\"") @@ ("notes.md" :> "todo")

RECURSIVE StrList(_, _)
StrList(names, k) == IF k > Len(names) THEN <<>> ELSE <<JStr(names[k])>> \o StrList(names, k + 1)
\* ToolExecutor.list_files
list_files == JArr(StrList(FileNames, 1))

\* ToolExecutor.read_file: open() of a name that is no str fails inside the try
read_file(file_name) ==
    IF file_name.t = "str"
    THEN IF file_name.s \in DOMAIN FileContent
         THEN JStr(FileContent[file_name.s])
         ELSE JStr("Error: File '" \o file_name.s \o "' not found.")
    ELSE IF file_name.t = "num"
    THEN JStr("Error: [Errno 9] Bad file descriptor")
    ELSE JStr("Error: expected str, bytes or os.PathLike object")

(***************************************************************************)
(* Agent.                                                                  *)
(***************************************************************************)
Msg(role, content) == [role |-> role, content |-> content]

\* Agent._load_rules (the content is the head of the system prompt)
agent_rules ==
    <<Msg("system", "You are an AI agent that can perform tasks by using available tools.")>>

NoValue == [t |-> "none"]

\* d.get(k, default) on a dict
DictGet(d, k, default) == IF k \in Keys(d) THEN Get(d, k) ELSE default

\* (mutant) args.get(key): a missing key gives None instead of raising
SubscriptOrNone(args, key) ==
    IF args.t = "obj" /\ key \in Keys(args) THEN [kind |-> "return", v |-> Get(args, key)]
    ELSE [kind |-> "return", v |-> JNull]

\* args[key]: KeyError on a dict without the key, TypeError on anything that is no dict
Subscript(args, key) ==
    IF args.t = "obj"
    THEN IF key \in Keys(args) THEN Returned(Get(args, key)) ELSE Raised("KeyError")
    ELSE Raised("TypeError")

\* str(v) as the f-string of the default tool formats a hashable tool_name
PyStr(v) ==
    IF v.t = "str" THEN v.s
    ELSE IF v.t = "num" THEN IntStr(v.n)
    ELSE IF v.t = "bool" THEN (IF v.b THEN "True" ELSE "False")
    ELSE "None"

ToolNames == {"list_files", "read_file", "terminate", "error"}

\* one-entry result dict, or the exception of the subscript
Wrapped(key, got) == IF got.kind = "raise" THEN got ELSE Returned(JObj(<<Member(key, got.v)>>))

\* Agent.tool_map[tool_name](args)
tool_map(tool_name, args) ==
    CASE tool_name = "list_files" -> Returned(JObj(<<Member("result", list_files)>>))
      [] tool_name = "read_file" ->
            LET got == Subscript(args, "file_name")
            IN  IF got.kind = "raise" THEN got
                ELSE Returned(JObj(<<Member("result", read_file(got.v))>>))
      [] tool_name = "terminate" -> Wrapped("terminate", Subscript(args, "message"))
      [] tool_name = "error" -> Wrapped("error", Subscript(args, "message"))

\* (mutant) self.tool_map[tool_name]: no default for a name the map lacks
UnknownToolRaises(tool_name) == [kind |-> "raise", exc |-> "KeyError"]

\* the default of tool_map.get: lambda _: {"error": f"Unknown action: {tool_name}"}
UnknownTool(tool_name) ==
    Returned(JObj(<<Member("error", JStr("Unknown action: " \o PyStr(tool_name)))>>))

\* lines 123-127 of run: look the tool up and call it
Dispatch(action) ==
    IF action.t # "obj" THEN Raised("AttributeError")
    ELSE LET tool_name == DictGet(action, "tool_name", JNull)
             args == DictGet(action, "args", JObj(<<>>))
         IN  IF tool_name.t \in {"arr", "obj"} THEN Raised("TypeError")
             ELSE IF tool_name.t = "str" /\ tool_name.s \in ToolNames
                  THEN tool_map(tool_name.s, args)
             ELSE UnknownTool(tool_name)

\* parse_action then Dispatch: the tool result of a reply, or the exception raised on the way
Outcome(resp) ==
    LET parsed == parse_action(resp)
    IN  IF parsed.kind = "raise" THEN parsed ELSE Dispatch(parsed.v)

\* "terminate" in result
IsTerminal(res) == "terminate" \in Keys(res)

\* (mutant) one index too many: range(self.max_iterations + 1)
MoreIterationsInclusive(k, max) == k <= max

\* range(self.max_iterations) yields another index
MoreIterations(k, max) == k < max

\* (mutant) only the latest exchange is replayed: self.agent_rules + self.memory[-2:]
BuildPromptWindow(rules, mem) ==
    IF Len(mem) <= 2 THEN rules \o mem ELSE rules \o SubSeq(mem, Len(mem) - 1, Len(mem))

\* prompt = self.agent_rules + self.memory
BuildPrompt(rules, mem) == rules \o mem

\* (mutant) the observation is appended without the reply that led to it
ExtendedObservationOnly(mem, resp, res) == mem \o <<Msg("user", Dumps(res))>>

\* self.memory.extend([assistant reply, user observation])
Extended(mem, resp, res) == mem \o <<Msg("assistant", resp), Msg("user", Dumps(res))>>

TerminationReport(res) == [report |-> "Termination", value |-> Get(res, "terminate")]
MaxIterationsReport == [report |-> "Max iterations reached"]
\* (mutant) the max-iterations report follows the loop instead of being its else clause
ReportTerminationThenExhausted(o, res) ==
    Append(Append(o, [report |-> "Termination", value |-> Get(res, "terminate")]),
           [report |-> "Max iterations reached"])

\* what run has printed once it breaks out on a terminate result
ReportTermination(o, res) == Append(o, TerminationReport(res))
\* what run has printed once the else clause of the loop has run
ReportExhausted(o) == Append(o, MaxIterationsReport)

MaxIterationsBound == 3
UserTasks == {"What files are in this directory?", "Summarise a.txt"}

\* model replies: every tool, with and without its argument, and the malformed shapes
Replies ==
    {Wrap(Dumps(Action2(JStr("list_files"), JObj(<<>>))), 2),
     Wrap(Dumps(Action2(JStr("read_file"), JObj(<<Member("file_name", JStr("a.txt"))>>))), 2),
     Wrap(Dumps(Action2(JStr("read_file"), JObj(<<Member("file_name", JStr("b.txt"))>>))), 1),
     Wrap(Dumps(Action2(JStr("read_file"), JObj(<<>>))), 2),
     Wrap(Dumps(Action2(JStr("terminate"), JObj(<<Member("message", JStr("done"))>>))), 2),
     Wrap(Dumps(Action2(JStr("terminate"), JObj(<<>>))), 2),
     Wrap(Dumps(Action2(JStr("error"), JObj(<<Member("message", JStr("oops"))>>))), 1),
     Wrap(Dumps(Action2(JStr("error"), JNull)), 2),
     Wrap(Dumps(Action2(JStr("foo"), JObj(<<>>))), 2),
     Wrap(Dumps(Action2(JArr(<<>>), JObj(<<>>))), 2),
     Wrap(Dumps(JObj(<<Member("tool_name", JStr("list_files"))>>)), 2),
     Wrap(Dumps(Action2(JStr("terminate"), JObj(<<Member("message", JStr("done"))>>))), 4),
     Wrap(Dumps(JNum(5)), 1),
     Wrap(Dumps(JStr("tool_name and args")), 1),
     Wrap("I will list the files.", 1)}

\* Outcome of every reply the model can give, computed once
OutcomeOf == [resp \in Replies |-> Outcome(resp)]

\* run(user_task) up to the loop
Run(task) ==
    /\ pc = "idle"
    /\ user_task' = task
    /\ memory' = <<Msg("user", task)>>
    /\ i' = 0
    /\ pc' = "loop"
    /\ UNCHANGED <<max_iterations, prompt, response, result, llm_calls, out, history, raised>>
    /\ UNCHANGED <<parse_vars, quasi_vars, game_vars>>

\* the head of an iteration: build the prompt and call the completion client
Generate(reply) ==
    /\ pc = "loop"
    /\ MoreIterations(i, max_iterations)
    /\ prompt' = BuildPrompt(agent_rules, memory)
    /\ llm_calls' = llm_calls + 1
    /\ response' = reply
    /\ pc' = "respond"
    /\ UNCHANGED <<max_iterations, user_task, memory, i, result, out, history, raised>>
    /\ UNCHANGED <<parse_vars, quasi_vars, game_vars>>

\* the rest of the iteration: parse, dispatch, then break or extend the memory
Step ==
    /\ pc = "respond"
    /\ \E res \in {OutcomeOf[response]} :
           IF res.kind = "raise"
           THEN /\ pc' = "raised"
                /\ raised' = res.exc
                /\ UNCHANGED <<memory, i, result, out, history>>
           ELSE IF IsTerminal(res.v)
           THEN /\ pc' = "done"
                /\ result' = res.v
                /\ out' = ReportTermination(out, res.v)
                /\ UNCHANGED <<memory, i, history, raised>>
           ELSE /\ pc' = "loop"
                /\ result' = res.v
                /\ memory' = Extended(memory, response, res.v)
                /\ history' = Append(history, [reply |-> response, result |-> res.v])
                /\ i' = i + 1
                /\ UNCHANGED <<out, raised>>
    /\ UNCHANGED <<max_iterations, user_task, prompt, response, llm_calls>>
    /\ UNCHANGED <<parse_vars, quasi_vars, game_vars>>

\* the loop ran out of indices: its else clause
LoopExit ==
    /\ pc = "loop"
    /\ ~MoreIterations(i, max_iterations)
    /\ out' = ReportExhausted(out)
    /\ pc' = "done"
    /\ UNCHANGED <<max_iterations, user_task, memory, i, prompt, response, result, llm_calls,
                   history, raised>>
    /\ UNCHANGED <<parse_vars, quasi_vars, game_vars>>

(***************************************************************************)
(* QuasiAgent.                                                             *)
(***************************************************************************)
\* QuasiAgent._extract_code_block
_extract_code_block(resp) ==
    IF ~Contains(resp, Fence) THEN resp
    ELSE LET code_block == Strip(Split(resp, Fence)[2])
         IN  IF StartsWith(code_block, "python") THEN From(code_block, 7) ELSE code_block

UpperCase == "ABCDEFGHIJKLMNOPQRSTUVWXYZ"
LowerCase == "abcdefghijklmnopqrstuvwxyz"
\* c.lower() for an ASCII character
LowerChar(c) == IF Contains(UpperCase, c) THEN Char(LowerCase, Find(UpperCase, c, 1)) ELSE c
IsAlnum(c) == Contains(LowerCase, c) \/ Contains(UpperCase, c) \/ c \in Digits
IsSpace(c) == c \in Whitespace

RECURSIVE FileStem(_, _)
\* ''.join(c for c in description.lower() if c.isalnum() or c.isspace()).replace(" ", "_")
FileStem(description, k) ==
    IF k > Len(description) THEN ""
    ELSE LET c == LowerChar(Char(description, k))
         IN  (IF c = " " THEN "_" ELSE IF IsAlnum(c) \/ IsSpace(c) THEN c ELSE "")
             \o FileStem(description, k + 1)

FileNameLimit == 30
\* QuasiAgent._build_filename
_build_filename(description) == Slice(FileStem(description, 1), 1, FileNameLimit) \o ".py"

\* QuasiAgent._add_message
_add_message(messages, role, content) == Append(messages, Msg(role, content))

SystemPrompt == "You are a Python expert helping to develop a function"
FunctionPrompt(d) ==
    "Write a Python function that " \o d \o ". Output the function in a "
    \o Fence \o "python code block" \o Fence \o "."
DocumentationPrompt ==
    "Add a comprehensive documentation to this function, including description, parameters, "
    \o "return value, examples, and edge cases. Output the function in a "
    \o Fence \o "python code block" \o Fence \o "."
TestsPrompt ==
    "Add unittest test cases for this function, including tests for basic functionality, "
    \o "edge cases, error cases and various input scenarios. Output the code in a "
    \o Fence \o "python code block" \o Fence \o "."

\* the assistant message that carries an extracted code
CodeMessage(code) == Fence \o "python\n" \o code \o "\n" \o Fence

\* (mutant) the first draft is written instead of the documented function
FileTextOfDraft(code) == code.base_function \o "\n\n" \o code.test_cases

\* f.write(documented_function + "\n\n" + test_cases)
FileText(code) == code.documented_function \o "\n\n" \o code.test_cases

\* what the user types at the prompt
TypedDescriptions ==
    {"  adds two numbers ", "Calculates the Factorial of a number, recursively!"}
\* model replies to the three prompts
CodeReplies ==
    {"def f(a, b):\n    return a + b",
     "Here it is:\n" \o Fence \o "python\ndef f(a, b):\n    \"\"\"Add.\"\"\"\n    return a + b\n"
        \o Fence \o "\nDone.",
     Fence \o "\nimport unittest\n" \o Fence,
     Fence \o "python" \o Fence \o " and " \o Fence \o "python\nx = 1\n" \o Fence,
     "See " \o Fence \o "py\nassert f(1, 2) == 3"}

NoCode == [base_function |-> "", documented_function |-> "", test_cases |-> ""]

\* develop_custom_function up to the first completion call
Describe(typed) ==
    /\ q_pc = "idle"
    /\ q_desc' = Strip(typed)
    /\ q_messages' = _add_message(<<Msg("system", SystemPrompt)>>, "user",
                                  FunctionPrompt(Strip(typed)))
    /\ q_pc' = "function"
    /\ UNCHANGED <<q_prompts, q_replies, q_code, q_file>>
    /\ UNCHANGED <<parse_vars, agent_vars, game_vars>>

\* step 1: the base function, then the messages of step 2
GenerateFunction(reply) ==
    /\ q_pc = "function"
    /\ q_prompts' = Append(q_prompts, q_messages)
    /\ q_replies' = Append(q_replies, reply)
    /\ q_code' = [q_code EXCEPT !.base_function = _extract_code_block(reply)]
    /\ q_messages' = _add_message(
                        _add_message(q_messages, "assistant",
                                     CodeMessage(_extract_code_block(reply))),
                        "user", DocumentationPrompt)
    /\ q_pc' = "documentation"
    /\ UNCHANGED <<q_desc, q_file>>
    /\ UNCHANGED <<parse_vars, agent_vars, game_vars>>

\* step 2: the documented function, then the messages of step 3
AddDocumentation(reply) ==
    /\ q_pc = "documentation"
    /\ q_prompts' = Append(q_prompts, q_messages)
    /\ q_replies' = Append(q_replies, reply)
    /\ q_code' = [q_code EXCEPT !.documented_function = _extract_code_block(reply)]
    /\ q_messages' = _add_message(
                        _add_message(q_messages, "assistant",
                                     CodeMessage(_extract_code_block(reply))),
                        "user", TestsPrompt)
    /\ q_pc' = "tests"
    /\ UNCHANGED <<q_desc, q_file>>
    /\ UNCHANGED <<parse_vars, agent_vars, game_vars>>

\* step 3: the test cases, then the file
GenerateTests(reply) ==
    /\ q_pc = "tests"
    /\ q_prompts' = Append(q_prompts, q_messages)
    /\ q_replies' = Append(q_replies, reply)
    /\ q_code' = [q_code EXCEPT !.test_cases = _extract_code_block(reply)]
    /\ q_file' = <<_build_filename(q_desc), FileText(q_code')>>
    /\ q_pc' = "done"
    /\ UNCHANGED <<q_desc, q_messages>>
    /\ UNCHANGED <<parse_vars, agent_vars, game_vars>>

(***************************************************************************)
(* core/game.py: Action, ActionRegistry, Environment.                      *)
(*                                                                         *)
(* An Action's function is a record: the keyword parameters it accepts and *)
(* what a call with them does: return a value, raise an exception that is  *)
(* an Exception, or raise one that is only a BaseException (SystemExit,    *)
(* KeyboardInterrupt).                                                     *)
(***************************************************************************)
Function(params, does, value) == [params |-> params, does |-> does, value |-> value]
ActionOf(name, function, terminal) == [t |-> "action", name |-> name, function |-> function,
                                       terminal |-> terminal]

\* an exception: whether `except Exception` catches it, and str(e)
Exc(type, is_exception, text) == [type |-> type, is_exception |-> is_exception, text |-> text]

\* Action.execute(**args): the call of the function with the keyword arguments
execute(action, args) ==
    IF action.t # "action"
    THEN Raised(Exc("AttributeError", TRUE, "'NoneType' object has no attribute 'execute'"))
    ELSE IF args.t # "obj"
    THEN Raised(Exc("TypeError", TRUE, "argument after ** must be a mapping"))
    ELSE IF Keys(args) # action.function.params
    THEN Raised(Exc("TypeError", TRUE, "unexpected or missing keyword argument"))
    ELSE IF action.function.does = "return" THEN Returned(action.function.value)
    ELSE IF action.function.does = "echo" THEN Returned(args)
    ELSE Raised(action.function.value)

\* Environment.format_result
format_result(res, now) ==
    JObj(<<Member("tool_executed", JBool(TRUE)), Member("result", res),
           Member("timestamp", JStr(now))>>)

\* traceback.format_exc()
format_exc(e) == "Traceback (most recent call last):\n" \o e.type \o ": " \o e.text

\* (mutant) a narrower clause: except TypeError
CaughtTypeErrorOnly(e) == e.type = "TypeError"

\* the clause `except Exception` catches e
Caught(e) == e.is_exception

\* Environment.execute_action
execute_action(action, args, now) ==
    LET call == execute(action, args)
    IN  IF call.kind = "return" THEN Returned(format_result(call.v, now))
        ELSE IF Caught(call.exc)
        THEN Returned(JObj(<<Member("tool_executed", JBool(FALSE)),
                             Member("error", JStr(call.exc.text)),
                             Member("traceback", JStr(format_exc(call.exc)))>>))
        ELSE Raised(call.exc)

\* ActionRegistry.get_action
get_action(registry, name) == IF name \in Keys(JObj(registry)) THEN Get(JObj(registry), name)
                              ELSE NoValue

Functions ==
    {Function({}, "return", JArr(<<JStr("a.txt")>>)),
     Function({"text"}, "echo", JNull),
     Function({"path"}, "raise", Exc("ValueError", TRUE, "bad path")),
     Function({}, "raise", Exc("SystemExit", FALSE, "0"))}
ActionNames == {"list", "say"}
Actions == {ActionOf(n, f, FALSE) : n \in ActionNames, f \in Functions}
ArgsGiven ==
    {JObj(<<>>), JObj(<<Member("text", JStr("hi"))>>), JObj(<<Member("path", JStr("/x"))>>),
     JObj(<<Member("text", JStr("hi")), Member("loud", JBool(TRUE))>>), JNull}
Timestamps == {"2024-05-01T10:00:00UTC", "2024-05-01T10:00:01UTC"}

\* ActionRegistry.register
Register(action) ==
    /\ actions' = Put(actions, action.name, action)
    /\ UNCHANGED <<e_call, e_out>>
    /\ UNCHANGED <<parse_vars, agent_vars, quasi_vars>>

\* Environment.execute_action on what get_action gave for a name
ExecuteAction(name, args, now) ==
    /\ e_call' = [action |-> get_action(actions, name), args |-> args]
    /\ e_out' = execute_action(get_action(actions, name), args, now)
    /\ UNCHANGED actions
    /\ UNCHANGED <<parse_vars, agent_vars, quasi_vars>>

(***************************************************************************)
(* Specifications: one per program, the other programs' state held still.  *)
(***************************************************************************)
\* a text to parse, nothing applied to it yet
ParseInit ==
    /\ p_text \in Responses
    /\ p_tag = ""
    /\ p_block = ""
    /\ p_out = NoOutcome
    /\ max_iterations = 0
    /\ user_task = ""
    /\ memory = <<>>
    /\ pc = "idle"
    /\ i = 0
    /\ prompt = <<>>
    /\ response = ""
    /\ result = NoValue
    /\ llm_calls = 0
    /\ out = <<>>
    /\ history = <<>>
    /\ raised = ""
    /\ q_pc = "idle"
    /\ q_desc = ""
    /\ q_messages = <<>>
    /\ q_prompts = <<>>
    /\ q_replies = <<>>
    /\ q_code = NoCode
    /\ q_file = <<>>
    /\ actions = <<>>
    /\ e_call = NoValue
    /\ e_out = NoOutcome

ParseNext ==
    \/ ParseAction
    \/ \E block_type \in BlockTypes : ExtractBlock(block_type)

ParseSpec == ParseInit /\ [][ParseNext]_vars

\* Agent(llm_client, tools, max_iterations) constructed, run not yet called
AgentInit ==
    /\ p_text = ""
    /\ p_tag = ""
    /\ p_block = ""
    /\ p_out = NoOutcome
    /\ max_iterations \in 0..MaxIterationsBound
    /\ user_task = ""
    /\ memory = <<>>
    /\ pc = "idle"
    /\ i = 0
    /\ prompt = <<>>
    /\ response = ""
    /\ result = NoValue
    /\ llm_calls = 0
    /\ out = <<>>
    /\ history = <<>>
    /\ raised = ""
    /\ q_pc = "idle"
    /\ q_desc = ""
    /\ q_messages = <<>>
    /\ q_prompts = <<>>
    /\ q_replies = <<>>
    /\ q_code = NoCode
    /\ q_file = <<>>
    /\ actions = <<>>
    /\ e_call = NoValue
    /\ e_out = NoOutcome

AgentNext ==
    \/ \E task \in UserTasks : Run(task)
    \/ \E reply \in Replies : Generate(reply)
    \/ Step
    \/ LoopExit

AgentSpec == AgentInit /\ [][AgentNext]_vars
\* run is sequential code: it takes its next step as long as it has one (the completion
\* client is assumed to return)
AgentFairSpec == AgentSpec /\ WF_vars(AgentNext)

\* QuasiAgent(llm_client) constructed
QuasiInit ==
    /\ p_text = ""
    /\ p_tag = ""
    /\ p_block = ""
    /\ p_out = NoOutcome
    /\ max_iterations = 0
    /\ user_task = ""
    /\ memory = <<>>
    /\ pc = "idle"
    /\ i = 0
    /\ prompt = <<>>
    /\ response = ""
    /\ result = NoValue
    /\ llm_calls = 0
    /\ out = <<>>
    /\ history = <<>>
    /\ raised = ""
    /\ q_pc = "idle"
    /\ q_desc = ""
    /\ q_messages = <<>>
    /\ q_prompts = <<>>
    /\ q_replies = <<>>
    /\ q_code = NoCode
    /\ q_file = <<>>
    /\ actions = <<>>
    /\ e_call = NoValue
    /\ e_out = NoOutcome

QuasiNext ==
    \/ \E typed \in TypedDescriptions : Describe(typed)
    \/ \E reply \in CodeReplies : GenerateFunction(reply)
    \/ \E reply \in CodeReplies : AddDocumentation(reply)
    \/ \E reply \in CodeReplies : GenerateTests(reply)

QuasiSpec == QuasiInit /\ [][QuasiNext]_vars

\* ActionRegistry(), Memory() and Environment() constructed
GameInit ==
    /\ p_text = ""
    /\ p_tag = ""
    /\ p_block = ""
    /\ p_out = NoOutcome
    /\ max_iterations = 0
    /\ user_task = ""
    /\ memory = <<>>
    /\ pc = "idle"
    /\ i = 0
    /\ prompt = <<>>
    /\ response = ""
    /\ result = NoValue
    /\ llm_calls = 0
    /\ out = <<>>
    /\ history = <<>>
    /\ raised = ""
    /\ q_pc = "idle"
    /\ q_desc = ""
    /\ q_messages = <<>>
    /\ q_prompts = <<>>
    /\ q_replies = <<>>
    /\ q_code = NoCode
    /\ q_file = <<>>
    /\ actions = <<>>
    /\ e_call = NoValue
    /\ e_out = NoOutcome

GameNext ==
    \/ \E a \in Actions : Register(a)
    \/ \E name \in ActionNames \cup {"missing"}, args \in ArgsGiven, now \in Timestamps :
          ExecuteAction(name, args, now)

GameSpec == GameInit /\ [][GameNext]_vars

(***************************************************************************)
(* Properties of parse_action and extract_markdown_block (ParseSpec).      *)
(***************************************************************************)
\* v is a dict that has the key k
HasField(v, k) == v.t = "obj" /\ k \in Keys(v)

\* v is {tool_name: "error", args: {message: <some text>}}
IsErrorAction(v) ==
    /\ v.t = "obj"
    /\ Keys(v) = {"tool_name", "args"}
    /\ Get(v, "tool_name") = JStr("error")
    /\ Get(v, "args").t = "obj"
    /\ Keys(Get(v, "args")) = {"message"}
    /\ Get(Get(v, "args"), "message").t = "str"

\* parse_action has been applied to p_text
Parsed == p_tag = "action" /\ p_out # NoOutcome

\* C1: for every text parse_action returns and does not raise; when the candidate payload
\* fails to decode, or decodes to anything without a tool_name field or an args field
\* (a number, null, a string, an array included), the result is the synthesized error
\* action; otherwise it is the decoded object, which has both fields.
C1_ParseActionNeverRaises ==
    Parsed =>
        /\ p_out.kind = "return"
        /\ IF /\ Loads(p_block).ok
              /\ HasField(Loads(p_block).v, "tool_name")
              /\ HasField(Loads(p_block).v, "args")
           THEN p_out.v = Loads(p_block).v
           ELSE IsErrorAction(p_out.v)

RECURSIVE FirstSpace(_, _)
\* the position of the first whitespace character of s from k on, Len(s) + 1 if none
FirstSpace(s, k) ==
    IF k > Len(s) \/ Char(s, k) \in Whitespace THEN k ELSE FirstSpace(s, k + 1)
\* the tag of a fenced block: what follows the opening fence up to the first whitespace
TagOf(block) == Slice(block, 1, FirstSpace(block, 1) - 1)
\* the fenced blocks of a text are the even pieces between its fences
BlocksTagged(text, tag) ==
    {k \in DOMAIN Split(text, Fence) : k % 2 = 0 /\ TagOf(Split(text, Fence)[k]) = tag}
Least(S) == CHOOSE k \in S : \A m \in S : k <= m

\* C2: extract_markdown_block(text, "action") returns the body of the first fenced block
\* tagged action (tag removed, surrounding whitespace trimmed); with no fenced block tagged
\* action the entire text is returned; a block whose tag is not exactly action is never
\* selected.
C2_SelectsExactlyTaggedBlock ==
    p_tag = "action" =>
        IF BlocksTagged(p_text, "action") # {}
        THEN p_block = Strip(From(Split(p_text, Fence)[Least(BlocksTagged(p_text, "action"))],
                                  Len("action") + 1))
        ELSE p_block = p_text

(***************************************************************************)
(* Properties of Agent.run (AgentSpec, AgentFairSpec).                     *)
(***************************************************************************)
\* parse_action applied to each reply the completion client can give
ActionOfReply == [resp \in Replies |-> parse_action(resp)]

\* parse_action yields the synthesized error action for the reply
Malformed(resp) ==
    ActionOfReply[resp] \in {Returned(ErrorAction("Malformed JSON in action block.")),
                            Returned(ErrorAction("Missing required fields in action JSON."))}
\* the reply parses to an action dict
ParsesToAction(resp) ==
    ActionOfReply[resp].kind = "return" /\ ActionOfReply[resp].v.t = "obj"
ToolNameOf(resp) == Get(ActionOfReply[resp].v, "tool_name")
ArgsOf(resp) == Get(ActionOfReply[resp].v, "args")
\* the reply's tool_name is none of the four tools
NamesUnknownTool(resp) ==
    ParsesToAction(resp) /\ ToolNameOf(resp) \notin {JStr(n) : n \in ToolNames}
\* the same, with a tool_name a dict can be keyed by
NamesUnknownHashableTool(resp) ==
    NamesUnknownTool(resp) /\ ToolNameOf(resp).t \notin {"arr", "obj"}
NamesTool(resp, name) == ParsesToAction(resp) /\ ToolNameOf(resp) = JStr(name)

\* the reply's tool_name is a string
NamesSomeTool(resp) == ParsesToAction(resp) /\ ToolNameOf(resp).t = "str"

Halted == pc \in {"done", "raised"}
\* the latest dispatched tool result contains the terminate key
Terminated == result.t = "obj" /\ IsTerminal(result)
TerminationReported == \E n \in DOMAIN out : out[n].report = "Termination"
MaxIterationsReported == \E n \in DOMAIN out : out[n].report = "Max iterations reached"

\* C3 as stated: when run has halted, either an iteration produced a terminate result or
\* max_iterations iterations were made; at most max_iterations completion calls.  Stated
\* for the runs whose latest reply parse_action turned into an action dict with a string
\* tool_name, so that no exception raised by parse_action or by the tool lookup is involved.
C3_StopsOnlyAtTerminateOrCap ==
    /\ llm_calls <= max_iterations
    /\ (Halted /\ llm_calls > 0 /\ NamesSomeTool(response))
       => (Terminated \/ llm_calls = max_iterations)

\* C3 amended: run always halts; the loop stops at the first iteration whose tool result
\* contains the terminate key, at the first iteration that raises, or after max_iterations
\* iterations, whichever comes first; the completion client is called at most
\* max_iterations times and never again once run has halted.
C3_RunHalts ==
    /\ <>Halted
    /\ [](llm_calls <= max_iterations)
    /\ [](Halted => (Terminated \/ raised # "" \/ llm_calls = max_iterations))
    /\ [](Terminated => (pc = "done" /\ llm_calls = Len(history) + 1))
    /\ [](raised # "" => (pc = "raised" /\ llm_calls = Len(history) + 1))
    /\ [][Halted => llm_calls' = llm_calls /\ Halted']_vars

\* an iteration raised before the cap, after one that completed
C3_Witness == pc = "raised" /\ Len(history) = 1 /\ llm_calls = 2 /\ max_iterations = 3

\* C4: the max-iterations report is emitted exactly when all max_iterations iterations
\* completed without a terminate result, the termination report exactly when an iteration
\* produced a terminate result, and never both, also when the terminate result comes on
\* iteration number max_iterations.
C4_ReportsAreExclusive ==
    /\ ~(TerminationReported /\ MaxIterationsReported)
    /\ Len(out) <= 1
    /\ TerminationReported <=> Terminated
    /\ MaxIterationsReported => (pc = "done" /\ Len(history) = max_iterations /\ ~Terminated)
    /\ (Halted /\ Len(history) = max_iterations /\ ~Terminated) => MaxIterationsReported

\* the terminate result arrived on the last allowed iteration
C4_Witness ==
    /\ pc = "done" /\ Terminated /\ TerminationReported
    /\ llm_calls = max_iterations /\ max_iterations >= 2

\* C5: memory starts as the single user-task entry; every non-terminal iteration appends the
\* assistant entry with the raw reply and then the user entry with the tool result as JSON
\* text; the terminating iteration appends nothing: the length is 1 + 2 x (non-terminal
\* iterations completed).
C5_MemoryGrowth ==
    pc # "idle" =>
        /\ i = Len(history)
        /\ Len(memory) = 1 + 2 * Len(history)
        /\ memory[1] = Msg("user", user_task)
        /\ \A k \in DOMAIN history :
              /\ memory[2 * k] = Msg("assistant", history[k].reply)
              /\ memory[2 * k + 1] = Msg("user", Dumps(history[k].result))

\* two iterations completed, a third one terminated
C5_Witness == pc = "done" /\ Terminated /\ Len(history) = 2 /\ Len(memory) = 5

\* C6: the k-th completion call receives the system entry followed by the whole memory, in
\* order: 2k messages, the system entry, the user task, then every reply/observation pair.
C6_PromptReplaysMemory ==
    pc = "respond" =>
        /\ prompt = agent_rules \o memory
        /\ Len(prompt) = 2 * llm_calls
        /\ prompt[1].role = "system"
        /\ prompt[2] = Msg("user", user_task)
        /\ \A k \in DOMAIN history :
              /\ prompt[2 * k + 1] = Msg("assistant", history[k].reply)
              /\ prompt[2 * k + 2] = Msg("user", Dumps(history[k].result))

\* the third call, with two exchanges to replay
C6_Witness == pc = "respond" /\ llm_calls = 3 /\ Len(prompt) = 6

\* the iteration completed with an error result that is now in memory
ContinuedWithError ==
    /\ pc' = "loop"
    /\ "error" \in Keys(result') /\ "terminate" \notin Keys(result')
    /\ memory' = memory \o <<Msg("assistant", response), Msg("user", Dumps(result'))>>

\* C8 as stated: an iteration whose reply is malformed or names a tool that is none of the
\* four is non-terminal (error result, appended to memory, the loop goes on), and only a
\* reply naming terminate ends the loop before the cap.  The last part is stated for the
\* replies parse_action turns into an action dict with a string tool_name, so that no
\* exception raised by parse_action is involved.
C8_ErrorsNeverEndTheLoop ==
    [][/\ (pc = "respond" /\ (Malformed(response) \/ NamesUnknownTool(response)))
          => ContinuedWithError
       /\ (pc = "respond" /\ Halted' /\ llm_calls < max_iterations /\ NamesSomeTool(response))
          => NamesTool(response, "terminate")]_vars

\* C8 amended: an iteration whose reply is malformed, or whose tool_name is a string,
\* number, boolean or null that is none of the four tools, is non-terminal: error result,
\* no terminate key, reply and serialized result appended to memory, which the next call
\* receives.  A tool_name that is a list or an object makes the lookup raise TypeError and
\* run aborts.  The loop is left through break only by a reply naming terminate; otherwise
\* run ends before the cap only by an exception.
C8_ErrorIterationsContinue ==
    [][/\ (pc = "respond" /\ (Malformed(response) \/ NamesUnknownHashableTool(response)))
          => ContinuedWithError
       /\ (/\ pc = "respond"
           /\ NamesUnknownTool(response)
           /\ ~NamesUnknownHashableTool(response))
          => (pc' = "raised" /\ raised' = "TypeError")
       /\ (pc = "respond" /\ pc' = "done") => NamesTool(response, "terminate")
       /\ (pc = "respond" /\ Halted' /\ ~NamesTool(response, "terminate")) => pc' = "raised"
       /\ (pc = "loop" /\ pc' = "respond") => prompt' = agent_rules \o memory]_vars

\* the next call after an unknown tool: the error observation is the last prompt entry
C8_Witness ==
    /\ pc = "respond" /\ llm_calls = 2
    /\ NamesUnknownHashableTool(history[1].reply)
    /\ prompt[Len(prompt)] = Msg("user", Dumps(history[1].result))
    /\ "error" \in Keys(history[1].result)

\* terminate or error without a message, read_file without a file_name
MissesArgument(resp) ==
    \/ (NamesTool(resp, "terminate") \/ NamesTool(resp, "error"))
       /\ ~HasField(ArgsOf(resp), "message")
    \/ NamesTool(resp, "read_file") /\ ~HasField(ArgsOf(resp), "file_name")

\* C10: when the parsed action names terminate or error without a message argument, or
\* read_file without a file_name argument, the iteration aborts with an exception that
\* escapes run: memory is left as it was at the start of the iteration and neither report
\* is emitted.
C10_UnguardedDispatchAborts ==
    /\ [][(pc = "respond" /\ MissesArgument(response))
          => /\ pc' = "raised"
             /\ raised' \in {"KeyError", "TypeError"}
             /\ memory' = memory
             /\ out' = out]_vars
    /\ [](pc = "raised" => (out = <<>> /\ Len(memory) = 1 + 2 * Len(history)))

\* terminate without a message, after an iteration that completed
C10_Witness ==
    /\ pc = "raised" /\ raised = "KeyError" /\ Len(history) = 1
    /\ NamesTool(response, "terminate")

(***************************************************************************)
(* Properties of QuasiAgent.develop_custom_function (QuasiSpec).           *)
(***************************************************************************)
Roles(messages) == [n \in DOMAIN messages |-> messages[n].role]
StepPrompts == <<FunctionPrompt(q_desc), DocumentationPrompt, TestsPrompt>>
CallsMade == CASE q_pc \in {"idle", "function"} -> 0
               [] q_pc = "documentation" -> 1
               [] q_pc = "tests" -> 2
               [] q_pc = "done" -> 3

\* C7: three completion calls, for the function, the documentation and the tests, on one
\* growing message list: 2, 4 and 6 messages (system, then user and assistant in turn,
\* ending in the step's user prompt), each later call holding the code extracted from the
\* previous reply as the assistant message before it; the file is written only after the
\* third call and holds the documented function followed by the test cases.
C7_ThreeChainedCalls ==
    /\ Len(q_prompts) = CallsMade /\ Len(q_replies) = CallsMade
    /\ \A k \in DOMAIN q_prompts :
          /\ Len(q_prompts[k]) = 2 * k
          /\ Roles(q_prompts[k]) =
                [n \in 1..(2 * k) |-> IF n = 1 THEN "system"
                                      ELSE IF n % 2 = 0 THEN "user" ELSE "assistant"]
          /\ q_prompts[k][2 * k].content = StepPrompts[k]
          /\ k > 1 =>
                /\ SubSeq(q_prompts[k], 1, 2 * k - 2) = q_prompts[k - 1]
                /\ q_prompts[k][2 * k - 1].content =
                      CodeMessage(_extract_code_block(q_replies[k - 1]))
    /\ q_file # <<>> <=> q_pc = "done"
    /\ q_pc = "done" =>
          /\ q_file[1] = _build_filename(q_desc)
          /\ q_file[2] = _extract_code_block(q_replies[2]) \o "\n\n"
                         \o _extract_code_block(q_replies[3])

\* the file is written and the documented function differs from the first draft
C7_Witness ==
    /\ q_pc = "done" /\ Len(q_prompts) = 3 /\ q_file # <<>>
    /\ q_code.base_function # q_code.documented_function
    /\ q_code.base_function = _extract_code_block(q_replies[1])

(***************************************************************************)
(* Properties of Environment.execute_action (GameSpec).                    *)
(***************************************************************************)
Executed == e_call # NoValue
\* what the call of the action's function with the args does
CallOutcome == execute(e_call.action, e_call.args)

ReportsSuccess(v) ==
    /\ e_out.kind = "return"
    /\ HasField(e_out.v, "tool_executed") /\ Get(e_out.v, "tool_executed") = JBool(TRUE)
    /\ HasField(e_out.v, "result") /\ Get(e_out.v, "result") = v
ReportsFailure(e) ==
    /\ e_out.kind = "return"
    /\ HasField(e_out.v, "tool_executed") /\ Get(e_out.v, "tool_executed") = JBool(FALSE)
    /\ HasField(e_out.v, "error") /\ Get(e_out.v, "error") = JStr(e.text)
    /\ ~HasField(e_out.v, "result")

\* C9 as stated: execute_action never raises: a value the function returns is reported with
\* tool_executed = true and result = the value; anything the function raises (a call with
\* arguments it does not accept included) is reported with tool_executed = false, the
\* exception text as error, and no result.
C9_NeverRaises ==
    Executed =>
        /\ e_out.kind = "return"
        /\ IF CallOutcome.kind = "return" THEN ReportsSuccess(CallOutcome.v)
           ELSE ReportsFailure(CallOutcome.exc)

\* C9 amended: execute_action raises only what the function raises outside Exception
\* (SystemExit, KeyboardInterrupt), which it lets through; a returned value is reported with
\* tool_executed = true and result = the value; an Exception (a call with arguments the
\* function does not accept included) with tool_executed = false, its text as error, and
\* no result.
C9_CatchesExceptions ==
    Executed =>
        IF CallOutcome.kind = "return" THEN ReportsSuccess(CallOutcome.v)
        ELSE IF CallOutcome.exc.is_exception THEN ReportsFailure(CallOutcome.exc)
        ELSE e_out = Raised(CallOutcome.exc)

\* a registered function raised ValueError and the failure was reported
C9_Witness ==
    /\ Executed /\ CallOutcome.kind = "raise" /\ CallOutcome.exc.type = "ValueError"
    /\ e_out.kind = "return" /\ Get(e_out.v, "tool_executed") = JBool(FALSE)

====
